---- MODULE Spec2Model ----
(***************************************************************************)
(* Model of src/main.py: a benchmark of three ways to run one query over   *)
(* an ADBC connection.  main() warms each method up, times it N_RUNS       *)
(* times with the connection closed, repeats that for two of the methods   *)
(* with the connection left open, aggregates the run records by            *)
(* (method, phase) and writes runs.csv and summary.csv.                    *)
(*                                                                         *)
(* Elapsed times are whole clock ticks of time.perf_counter; a mean is     *)
(* kept as the exact fraction <<sum, n>> and compared by cross             *)
(* multiplication.  Floating-point rounding is not modelled.               *)
(***************************************************************************)
EXTENDS Integers, Sequences, FiniteSets

VARIABLES
    pc,             \* position of main(): warmup, timed, aggregate, write_runs,
                    \*   write_summary, done, aborted
    phase,          \* 1: "for f in (dbc_docs, pl_direct_con, pl_direct_cursor)", 2: second loop
    fi,             \* index of f in the tuple the current for-loop iterates
    i,              \* the loop variable of "for i in range(N_RUNS)"
    records_close,  \* main.records_close
    records_leak,   \* main.records_leak
    df,             \* main.df
    summary,        \* main.summary
    rerun,          \* result of running the aggregation a second time on df
    runs_csv,       \* the file runs.csv
    summary_csv,    \* the file summary.csv
    open_cons,      \* ids of the connections opened and not closed
    opened,         \* number of connections dbapi.connect has returned
    calls,          \* log of the method invocations made so far
    latency         \* ticks one call of each (method, phase) takes

vars == <<pc, phase, fi, i, records_close, records_leak, df, summary, rerun,
          runs_csv, summary_csv, open_cons, opened, calls, latency>>

N_RUNS == 30

\* Largest latency, in ticks, of a timed call in Spec.
MaxLatency == 1
\* Largest number of rows of an input table of SpecAgg, and largest time in it.
MaxRows == 3
MaxTime == 2

PHASE1 == <<"dbc_docs", "pl_direct_con", "pl_direct_cursor">>
PHASE2 == <<"pl_direct_con", "pl_direct_cursor">>

Funcs(ph) == IF ph = 1 THEN PHASE1 ELSE PHASE2

PhaseTag(ph) == IF ph = 1 THEN "closed" ELSE "not_closed"

\* The (method, phase) pairs main() records, in program order.
Groups ==
    <<  <<"dbc_docs", "closed">>, <<"pl_direct_con", "closed">>,
        <<"pl_direct_cursor", "closed">>, <<"pl_direct_con", "not_closed">>,
        <<"pl_direct_cursor", "not_closed">> >>

GroupSet == {Groups[k] : k \in 1..Len(Groups)}

\* What a call can do: return, raise in dbapi.connect, raise after it.
Outcomes == {"ok", "connect_raises", "query_raises"}

----------------------------------------------------------------------------
(* The three methods: the open connections after a call that found `cons`  *)
(* open and whose own connection, if dbapi.connect returned, is `c`.       *)

\* The with-block closes con on every exit, normal or not.
dbc_docs(outcome, cons, c) == cons

pl_direct_con_never_closes(close_con, outcome, cons, c) ==
    IF outcome = "connect_raises" THEN cons ELSE cons \cup {c}

\* con.close() runs only if read_database returned and close_con is true.
pl_direct_con(close_con, outcome, cons, c) ==
    IF outcome = "connect_raises" THEN cons
    ELSE IF outcome = "ok" /\ close_con THEN cons
    ELSE cons \cup {c}

pl_direct_cursor(close_con, outcome, cons, c) ==
    IF outcome = "connect_raises" THEN cons
    ELSE IF outcome = "ok" /\ close_con THEN cons
    ELSE cons \cup {c}

CallMethod(f, close_con, outcome, cons, c) ==
    CASE f = "dbc_docs" -> dbc_docs(outcome, cons, c)
      [] f = "pl_direct_con" -> pl_direct_con(close_con, outcome, cons, c)
      [] f = "pl_direct_cursor" -> pl_direct_cursor(close_con, outcome, cons, c)

\* One invocation of f: its effect on the connections, and the log entry.
Invoke(f, close_con, timed, outcome) ==
    /\ opened' = IF outcome = "connect_raises" THEN opened ELSE opened + 1
    /\ open_cons' = CallMethod(f, close_con, outcome, open_cons, opened + 1)
    /\ calls' = Append(calls, [method |-> f, close_con |-> close_con,
                               timed |-> timed, outcome |-> outcome])

----------------------------------------------------------------------------
(* main(): the two benchmark loops.                                        *)

\* f(close_con=...) as main() calls it: f() for every warm-up and for the
\* timed runs of the first loop, f(close_con=False) for those of the second.
CloseFlagWarmupLeaks(ph, timed) == ph # 2

CloseFlag(ph, timed) == ~(timed /\ ph = 2)

PayloadZeroBased(f, ph, k, t) ==
    [method |-> f, phase |-> PhaseTag(ph), run |-> k, time_sec |-> t]

Payload(f, ph, k, t) ==
    [method |-> f, phase |-> PhaseTag(ph), run |-> k + 1, time_sec |-> t]

\* An exception is caught nowhere: it leaves main().
OnRaiseContinue(at) == at

OnRaise(at) == "aborted"

\* The next method's timed loop entered without its warm-up call.
NextPosSkipsWarmup(ph, f, k) ==
    IF k + 1 < N_RUNS THEN [pc |-> "timed", phase |-> ph, fi |-> f, i |-> k + 1]
    ELSE IF f < Len(Funcs(ph)) THEN [pc |-> "timed", phase |-> ph, fi |-> f + 1, i |-> 0]
    ELSE IF ph = 1 THEN [pc |-> "timed", phase |-> 2, fi |-> 1, i |-> 0]
    ELSE [pc |-> "aggregate", phase |-> ph, fi |-> f, i |-> k]

\* Where control is after the timed run with loop variable k returned.
NextPos(ph, f, k) ==
    IF k + 1 < N_RUNS THEN [pc |-> "timed", phase |-> ph, fi |-> f, i |-> k + 1]
    ELSE IF f < Len(Funcs(ph)) THEN [pc |-> "warmup", phase |-> ph, fi |-> f + 1, i |-> 0]
    ELSE IF ph = 1 THEN [pc |-> "warmup", phase |-> 2, fi |-> 1, i |-> 0]
    ELSE [pc |-> "aggregate", phase |-> ph, fi |-> f, i |-> k]

\* measure(fn): perf_counter after the call minus perf_counter before it.
measure(f, ph) == latency[<<f, PhaseTag(ph)>>]

\* "f()  # warm-up for auth"
Warmup ==
    /\ pc = "warmup"
    /\ \E outcome \in Outcomes :
        /\ Invoke(Funcs(phase)[fi], CloseFlag(phase, FALSE), FALSE, outcome)
        /\ pc' = IF outcome = "ok" THEN "timed" ELSE OnRaise(pc)
    /\ UNCHANGED <<phase, fi, i, records_close, records_leak, df, summary, rerun,
                   runs_csv, summary_csv, latency>>

\* One iteration of "for i in range(N_RUNS)": the timed call and the append.
Timed ==
    /\ pc = "timed"
    /\ \E outcome \in Outcomes :
        /\ Invoke(Funcs(phase)[fi], CloseFlag(phase, TRUE), TRUE, outcome)
        /\ IF outcome = "ok"
           THEN LET payload == Payload(Funcs(phase)[fi], phase, i,
                                       measure(Funcs(phase)[fi], phase))
                    next == NextPos(phase, fi, i)
                IN  /\ records_close' = IF phase = 1 THEN Append(records_close, payload)
                                        ELSE records_close
                    /\ records_leak' = IF phase = 2 THEN Append(records_leak, payload)
                                       ELSE records_leak
                    /\ pc' = next.pc
                    /\ phase' = next.phase
                    /\ fi' = next.fi
                    /\ i' = next.i
           ELSE /\ pc' = OnRaise(pc)
                /\ UNCHANGED <<phase, fi, i, records_close, records_leak>>
    /\ UNCHANGED <<df, summary, rerun, runs_csv, summary_csv, latency>>

----------------------------------------------------------------------------
(* Aggregation: pl.concat, group_by(["method", "phase"]).agg(...),         *)
(* sort("mean").                                                           *)

RECURSIVE SumSeq(_)
SumSeq(s) == IF s = <<>> THEN 0 ELSE Head(s) + SumSeq(Tail(s))

RECURSIVE MinSeq(_)
MinSeq(s) ==
    IF Len(s) = 1 THEN s[1]
    ELSE LET m == MinSeq(Tail(s)) IN IF Head(s) <= m THEN Head(s) ELSE m

RECURSIVE MaxSeq(_)
MaxSeq(s) ==
    IF Len(s) = 1 THEN s[1]
    ELSE LET m == MaxSeq(Tail(s)) IN IF Head(s) >= m THEN Head(s) ELSE m

\* All orderings of the elements of S.
RECURSIVE PermSeqs(_)
PermSeqs(S) ==
    IF S = {} THEN {<<>>}
    ELSE UNION {{<<x>> \o p : p \in PermSeqs(S \ {x})} : x \in S}

ConcatDropsSecond(a, b) == a

\* pl.concat([pl.DataFrame(a), pl.DataFrame(b)])
Concat(a, b) == a \o b

GroupKeyMethodOnly(r) == <<r.method, "closed">>

\* The key of group_by(["method", "phase"])
GroupKey(r) == <<r.method, r.phase>>

GroupKeys(t) == {GroupKey(t[k]) : k \in 1..Len(t)}

\* pl.col("time_sec") of the rows of one group, in table order.
GroupTimes(t, key) ==
    LET rows == SelectSeq(t, LAMBDA r : GroupKey(r) = key)
    IN  [k \in 1..Len(rows) |-> rows[k].time_sec]

MeanCountsOneMore(ts) == <<SumSeq(ts), Len(ts) + 1>>

\* .mean(): the fraction sum / n, as <<sum, n>>
Mean(ts) == <<SumSeq(ts), Len(ts)>>

\* .std(): the sample standard deviation (ddof = 1), null for a single row;
\* kept as the fraction <<num, den>> whose square root it is.
Std(ts) ==
    IF Len(ts) < 2 THEN <<>>
    ELSE <<Len(ts) * SumSeq([k \in 1..Len(ts) |-> ts[k] * ts[k]])
             - SumSeq(ts) * SumSeq(ts),
           Len(ts) * (Len(ts) - 1)>>

AggRow(t, key) ==
    LET ts == GroupTimes(t, key)
    IN  [method |-> key[1], phase |-> key[2], mean |-> Mean(ts), std |-> Std(ts),
         min |-> MinSeq(ts), max |-> MaxSeq(ts)]

\* a <= b for fractions with positive denominators
FracLe(a, b) == a[1] * b[2] <= b[1] * a[2]

Range(s) == {s[k] : k \in 1..Len(s)}

\* group_by(...).agg(...) without maintain_order: one row per group, the
\* rows in any order.
GroupByAgg(t) == PermSeqs({AggRow(t, key) : key \in GroupKeys(t)})

SortByMeanSkipped(g) == PermSeqs(Range(g))

SortByMin(g) ==
    {s \in PermSeqs(Range(g)) : \A k \in 1..(Len(s) - 1) : s[k].min <= s[k + 1].min}

\* The orderings of the rows S by non-decreasing mean: a row of least mean
\* first, any one of them when several rows have that mean.
RECURSIVE SortedSeqs(_)
SortedSeqs(S) ==
    IF S = {} THEN {<<>>}
    ELSE UNION {{<<x>> \o p : p \in SortedSeqs(S \ {x})} :
                   x \in {y \in S : \A z \in S : FracLe(y.mean, z.mean)}}

\* .sort("mean") without maintain_order: the rows by non-decreasing mean,
\* rows of equal mean in any order.
SortByMean(g) == SortedSeqs(Range(g))

\* Every summary the aggregation of table t can produce.
Summaries(t) == UNION {SortByMean(g) : g \in GroupByAgg(t)}

Aggregate ==
    /\ pc = "aggregate"
    /\ df' = Concat(records_close, records_leak)
    /\ summary' \in Summaries(df')
    /\ pc' = "write_runs"
    /\ UNCHANGED <<phase, fi, i, records_close, records_leak, rerun, runs_csv,
                   summary_csv, open_cons, opened, calls, latency>>

\* The aggregation of lines 123-132 applied once more to the same df.
Rerun ==
    /\ pc = "write_runs"
    /\ rerun = <<>>
    /\ rerun' \in Summaries(df)
    /\ UNCHANGED <<pc, phase, fi, i, records_close, records_leak, df, summary,
                   runs_csv, summary_csv, open_cons, opened, calls, latency>>

----------------------------------------------------------------------------
(* Output.  A write that raises leaves no file (it could not be created)   *)
(* or a file holding only part of the table.                               *)

NoFile == [status |-> "absent", rows |-> <<>>]

WriteCsv(table, result) ==
    IF result = "ok" THEN [status |-> "written", rows |-> table]
    ELSE [status |-> result, rows |-> <<>>]

\* df.write_csv("runs.csv")
WriteRuns ==
    /\ pc = "write_runs"
    /\ \E result \in {"ok", "absent", "partial"} :
        /\ runs_csv' = WriteCsv(df, result)
        /\ pc' = IF result = "ok" THEN "write_summary" ELSE OnRaise(pc)
    /\ UNCHANGED <<phase, fi, i, records_close, records_leak, df, summary, rerun,
                   summary_csv, open_cons, opened, calls, latency>>

\* summary.write_csv("summary.csv"), then the two prints
WriteSummary ==
    /\ pc = "write_summary"
    /\ \E result \in {"ok", "absent", "partial"} :
        /\ summary_csv' = WriteCsv(summary, result)
        /\ pc' = IF result = "ok" THEN "done" ELSE OnRaise(pc)
    /\ UNCHANGED <<phase, fi, i, records_close, records_leak, df, summary, rerun,
                   runs_csv, open_cons, opened, calls, latency>>

----------------------------------------------------------------------------
Init ==
    /\ pc = "warmup"
    /\ phase = 1
    /\ fi = 1
    /\ i = 0
    /\ records_close = <<>>
    /\ records_leak = <<>>
    /\ df = <<>>
    /\ summary = <<>>
    /\ rerun = <<>>
    /\ runs_csv = NoFile
    /\ summary_csv = NoFile
    /\ open_cons = {}
    /\ opened = 0
    /\ calls = <<>>
    /\ latency \in [GroupSet -> 0..MaxLatency]

Next == Warmup \/ Timed \/ Aggregate \/ WriteRuns \/ WriteSummary

Spec == Init /\ [][Next]_vars

(* The aggregation on its own: main() stands before line 122 with run      *)
(* records of up to MaxRows rows in all, every group's runs numbered from  *)
(* 1, and times in 0..MaxTime.                                             *)

\* The rows of groups lo..hi, cnt[g] rows for group g, times taken from ts.
RECURSIVE TableRows(_, _, _, _, _)
TableRows(g, hi, cnt, ts, off) ==
    IF g > hi THEN <<>>
    ELSE [r \in 1..cnt[g] |->
            Payload(Groups[g][1], IF g <= Len(PHASE1) THEN 1 ELSE 2, r - 1,
                    ts[off + r])]
         \o TableRows(g + 1, hi, cnt, ts, off + cnt[g])

InitAgg ==
    /\ pc = "aggregate"
    /\ phase = 2
    /\ fi = Len(PHASE2)
    /\ i = 0
    /\ \E cnt \in [1..Len(Groups) -> 0..MaxRows] :
        LET nclose == SumSeq([g \in 1..Len(PHASE1) |-> cnt[g]])
            total == SumSeq(cnt)
        IN  /\ nclose >= 1
            /\ total > nclose
            /\ total <= MaxRows
            /\ \E ts \in [1..total -> 0..MaxTime] :
                /\ records_close = TableRows(1, Len(PHASE1), cnt, ts, 0)
                /\ records_leak =
                       TableRows(Len(PHASE1) + 1, Len(Groups), cnt, ts, nclose)
    /\ df = <<>>
    /\ summary = <<>>
    /\ rerun = <<>>
    /\ runs_csv = NoFile
    /\ summary_csv = NoFile
    /\ open_cons = {}
    /\ opened = 0
    /\ calls = <<>>
    /\ latency = [g \in GroupSet |-> 0]

NextAgg == Aggregate \/ Rerun

SpecAgg == InitAgg /\ [][NextAgg]_vars

----------------------------------------------------------------------------
(* Properties.                                                             *)

Completed == pc \in {"aggregate", "write_runs", "write_summary", "done"}

\* Number of rows of table t recorded for method f in the phase tagged tag.
CountRows(t, f, tag) ==
    Cardinality({k \in 1..Len(t) : t[k].method = f /\ t[k].phase = tag})

\* The times of the rows of table t that belong to the group of summary row s.
TimesOf(t, s) ==
    LET rows == SelectSeq(t, LAMBDA r : r.method = s.method /\ r.phase = s.phase)
    IN  [k \in 1..Len(rows) |-> rows[k].time_sec]

LastCall == calls[Len(calls)]

\* C1: when main() runs to completion, runs.csv holds exactly 150 rows, 30
\* tagged "closed" for each of the three methods and 30 tagged "not_closed"
\* for each of pl_direct_con and pl_direct_cursor; the 5 warm-up calls add
\* no row (155 calls were made for the 150 rows).
C1_RunsCsvRows ==
    /\ pc = "done" => runs_csv.status = "written"
    /\ runs_csv.status = "written" =>
        /\ Len(runs_csv.rows) = 150
        /\ \A f \in {"dbc_docs", "pl_direct_con", "pl_direct_cursor"} :
              CountRows(runs_csv.rows, f, "closed") = 30
        /\ \A f \in {"pl_direct_con", "pl_direct_cursor"} :
              CountRows(runs_csv.rows, f, "not_closed") = 30
        /\ CountRows(runs_csv.rows, "dbc_docs", "not_closed") = 0
        /\ Len(calls) = 155
        /\ Cardinality({k \in 1..Len(calls) : ~calls[k].timed}) = 5

C1_Witness == pc = "done" /\ Len(runs_csv.rows) = 150

\* C2: at every point of the run, the run indices recorded so far for a
\* (method, phase) group, in the order the records were appended, are
\* 1, 2, ..., k for some k <= 30, and k = 30 for every group that has records
\* once the loops are over.
C2_RunIndices ==
    \A g \in GroupSet :
        LET rows == SelectSeq(records_close \o records_leak,
                              LAMBDA r : r.method = g[1] /\ r.phase = g[2])
        IN  /\ \A k \in 1..Len(rows) : rows[k].run = k
            /\ Len(rows) <= 30
            /\ Completed => Len(rows) = 30

C2_Witness ==
    /\ pc = "timed"
    /\ Len(records_close) = 90
    /\ Len(records_leak) = 45

\* C3: every invocation that returns has opened exactly one connection; the
\* close flag is true for the warm-ups and the closed phase and false for the
\* timed runs of the second loop; with the flag true the open connections
\* are the same after the call as before it, with the flag false the new
\* connection is open on return; and no open connection is ever closed later.
C3_ConnectionScope ==
    /\ [][(Len(calls') = Len(calls) + 1 /\ calls'[Len(calls')].outcome = "ok") =>
            LET e == calls'[Len(calls')]
            IN  /\ opened' = opened + 1
                /\ e.close_con = ~(e.timed /\ phase = 2)
                /\ e.close_con => open_cons' = open_cons
                /\ ~e.close_con =>
                      /\ opened' \notin open_cons
                      /\ open_cons' = open_cons \cup {opened'}]_vars
    /\ [][open_cons \subseteq open_cons']_vars

C3_Witness ==
    /\ pc = "timed"
    /\ phase = 2
    /\ fi = 2
    /\ i = 0
    /\ Cardinality(open_cons) = 30
    /\ LastCall.close_con
    /\ LastCall.outcome = "ok"

\* C4, as the claim states it: a raising invocation is the last one made and
\* leaves no output file, output files exist only after both phases, and a
\* failure while writing the output files leaves no output file behind.
C4_NoFileAfterAnyFailure ==
    /\ \A k \in 1..(Len(calls) - 1) : calls[k].outcome = "ok"
    /\ (runs_csv # NoFile \/ summary_csv # NoFile) =>
          Len(records_close) = 90 /\ Len(records_leak) = 60
    /\ pc = "aborted" => runs_csv = NoFile /\ summary_csv = NoFile

\* C4, amended: a raising invocation is the last one made, nothing runs after
\* an abort, and no output file is written then; output files exist only
\* after both phases have completed; a failure while writing runs.csv means
\* summary.csv is never written, and a failure while writing summary.csv
\* leaves the complete runs.csv behind.
C4_AbortDiscards ==
    /\ [](/\ \A k \in 1..(Len(calls) - 1) : calls[k].outcome = "ok"
          /\ (calls # <<>> /\ LastCall.outcome # "ok") =>
                pc = "aborted" /\ runs_csv = NoFile /\ summary_csv = NoFile
          /\ (runs_csv # NoFile \/ summary_csv # NoFile) =>
                /\ Len(records_close) = 90
                /\ Len(records_leak) = 60
                /\ Len(calls) = 155
          /\ (pc = "aborted" /\ runs_csv.status # "written") => summary_csv = NoFile
          /\ summary_csv # NoFile =>
                runs_csv.status = "written" /\ Len(runs_csv.rows) = 150)
    /\ [][pc # "aborted"]_vars

C4_Witness ==
    /\ pc = "aborted"
    /\ runs_csv.status = "written"
    /\ summary_csv.status = "partial"

\* C5: the summary has one row per (method, phase) pair of the combined run
\* table and no pair twice; for a completed run these are the 5 pairs
\* (dbc_docs, closed), (pl_direct_con, closed), (pl_direct_cursor, closed),
\* (pl_direct_con, not_closed), (pl_direct_cursor, not_closed).
C5_SummaryGroups ==
    /\ pc \in {"write_runs", "write_summary", "done"} => summary # <<>>
    /\ summary # <<>> =>
        LET keys == {<<summary[k].method, summary[k].phase>> : k \in 1..Len(summary)}
        IN  /\ keys = {<<df[k].method, df[k].phase>> : k \in 1..Len(df)}
            /\ Cardinality(keys) = Len(summary)
            /\ Len(summary) = 5
            /\ keys = {<<"dbc_docs", "closed">>, <<"pl_direct_con", "closed">>,
                       <<"pl_direct_cursor", "closed">>,
                       <<"pl_direct_con", "not_closed">>,
                       <<"pl_direct_cursor", "not_closed">>}

C5_Witness == pc = "write_summary" /\ Len(summary) = 5 /\ Len(df) = 150

\* C6: the rows of the summary are in order of non-decreasing mean, for every
\* table of run records (the mean of a row being the sum of its group's times
\* over their number).
C6_SortedByMean ==
    \A t \in {summary, rerun} :
        \A k \in 1..(Len(t) - 1) :
            SumSeq(TimesOf(df, t[k])) * Len(TimesOf(df, t[k + 1]))
                <= SumSeq(TimesOf(df, t[k + 1])) * Len(TimesOf(df, t[k]))

\* A summary of three groups of different means, whose order in the table is
\* not the order of their means.
C6_Witness ==
    /\ Len(summary) = 3
    /\ \A k \in 1..2 : ~FracLe(summary[k + 1].mean, summary[k].mean)
    /\ summary[1].phase = "not_closed"
    /\ summary[3].phase = "closed"

C8_IdenticalRerun == rerun # <<>> => rerun = summary

\* C8, amended: the aggregation run twice on the same table yields the same
\* rows and the same sequence of means, hence identical output when no two
\* groups have equal means; rows of equal mean may change places.
C8_RerunSameUpToTies ==
    rerun # <<>> =>
        /\ Len(rerun) = Len(summary)
        /\ Range(rerun) = Range(summary)
        /\ \A k \in 1..Len(summary) :
              /\ FracLe(rerun[k].mean, summary[k].mean)
              /\ FracLe(summary[k].mean, rerun[k].mean)
        /\ (\A j, k \in 1..Len(summary) :
                j # k => ~(/\ FracLe(summary[j].mean, summary[k].mean)
                           /\ FracLe(summary[k].mean, summary[j].mean)))
              => rerun = summary

\* Two runs of the aggregation that differ, in the order of two tied rows.
C8_Witness ==
    /\ rerun # <<>>
    /\ rerun # summary
    /\ Len(summary) >= 3

\* C9, as the claim states it: each method is warmed up once, all warm-up
\* invocations precede the timed invocations, every closed-phase timed
\* invocation precedes every not_closed one, and control does not go back
\* from aggregation.
C9_WarmupsFirst ==
    /\ \A f \in {"dbc_docs", "pl_direct_con", "pl_direct_cursor"} :
          Cardinality({k \in 1..Len(calls) :
                          calls[k].method = f /\ ~calls[k].timed}) <= 1
    /\ \A k \in 2..Len(calls) : ~calls[k].timed => ~calls[k - 1].timed
    /\ records_leak # <<>> => Len(records_close) = 90
    /\ Completed => Len(records_close) = 90 /\ Len(records_leak) = 60

\* C9, amended: a method is warmed up once in each loop that runs it (5
\* warm-ups, pl_direct_con and pl_direct_cursor twice), each warm-up comes
\* immediately before the 30 timed invocations of its method in that loop
\* (so warm-ups after the first follow timed invocations), every one of the 90
\* closed timed invocations precedes every one of the 60 not_closed ones
\* (pl_direct_con and pl_direct_cursor only), and once the second loop is
\* exhausted control is at aggregation and never back in a loop.
C9_PhaseOrder ==
    /\ [](/\ \A k \in 1..Len(calls) :
                LET b == (k - 1) \div 31
                    o == (k - 1) % 31
                IN  /\ b <= 4
                    /\ calls[k].timed = (o # 0)
                    /\ calls[k].method =
                         <<"dbc_docs", "pl_direct_con", "pl_direct_cursor",
                           "pl_direct_con", "pl_direct_cursor">>[b + 1]
                    /\ (calls[k].timed /\ ~calls[k].close_con) = (o # 0 /\ b >= 3)
          /\ records_leak # <<>> => Len(records_close) = 90
          /\ Len(records_close) <= 90
          /\ Len(records_leak) <= 60
          /\ Len(records_close) + Len(records_leak)
               = Cardinality({k \in 1..Len(calls) :
                                 calls[k].timed /\ calls[k].outcome = "ok"})
          /\ \A k \in 1..Len(records_leak) : records_leak[k].method # "dbc_docs"
          /\ Completed =>
                /\ Len(calls) = 155
                /\ Len(records_close) = 90
                /\ Len(records_leak) = 60)
    /\ [][/\ phase' >= phase
          /\ Completed => pc' \notin {"warmup", "timed"}
          /\ pc' = "aggregate" =>
                pc = "timed" /\ phase = 2 /\ fi = 2 /\ i = 29]_vars

C9_Witness == pc = "aggregate" /\ Len(calls) = 155

\* C10: the number of connections left open grows by one with each timed
\* not_closed invocation that returns and by zero with every other one
\* (closed-phase runs and all five warm-ups); it is 0 throughout the first
\* loop, it never decreases, and when a completed run reaches aggregation it is
\* 60 out of 155 connections opened.
C10_LeakCount ==
    /\ [](/\ (phase = 1 /\ pc # "aborted") => open_cons = {}
          /\ pc # "aborted" => Cardinality(open_cons) = Len(records_leak)
          /\ Completed => Cardinality(open_cons) = 60 /\ opened = 155)
    /\ [][/\ Cardinality(open_cons') >= Cardinality(open_cons)
          /\ (Len(calls') = Len(calls) + 1 /\ calls'[Len(calls')].outcome = "ok") =>
                Cardinality(open_cons') - Cardinality(open_cons) =
                    IF pc = "timed" /\ phase = 2 THEN 1 ELSE 0]_vars

C10_Witness ==
    /\ pc = "aggregate"
    /\ Cardinality(open_cons) = 60
    /\ opened = 155

====
